---- MODULE Spec2Model ----
(***************************************************************************)
(* Rainfall event selection (src/event_selection.py): the single-station   *)
(* segmenter select_events_single_station, the merger                      *)
(* merge_overlapping_events with merge_two_events, and the Event record.   *)
(*                                                                         *)
(* Units.  Time is counted in ticks of 6 minutes, the radar sampling step, *)
(* so that one hour is TicksPerHour ticks.  Rain intensities are counted   *)
(* in tenths of mm/h, so that the default threshold 0.1 is the integer 1.  *)
(* A float is a record [nan, n, d]: NaN, or the rational n/d with d > 0.   *)
(***************************************************************************)
EXTENDS Integers, Sequences, FiniteSets

VARIABLES
    pc,               \* position of the running call
    err,              \* the exception that ended the call, "" if none
    vals,             \* segmenter input: rain series of the station
    max_no_rain,      \* segmenter input: tolerated gap G, in time steps
    temporal_res,     \* segmenter input: temporal resolution mode
    radarStep,        \* radar table: ticks between two rows
    radarFirst,       \* radar table: tick of the first row
    radarNaN,         \* radar table: tick of the row holding NaN (-1: none)
    i,                \* segmenter: outer index
    j,                \* segmenter: inner index
    candidate_event,  \* segmenter: candidate buffer
    consecutive_hours_no_rain,
    events,           \* list of Events (segmenter output, merger input)
    Z,                \* segmenter: reflectivity samples recorded
    R,                \* segmenter: rain samples recorded
    closes,           \* history: one record per candidate the segmenter closed
    justClosed,       \* history: TRUE right after a candidate was closed
    input,            \* merger: the list as the caller passed it
    result,           \* merger: the result list
    np64,             \* merger: statistics are numpy float64 (else Python float)
    e1, e2,           \* merge_two_events: the arguments
    merged            \* merge_two_events: the returned Event

vars == <<pc, err, vals, max_no_rain, temporal_res, radarStep, radarFirst,
          radarNaN, i, j, candidate_event, consecutive_hours_no_rain, events,
          Z, R, closes, justClosed, input, result, np64, e1, e2, merged>>

-----------------------------------------------------------------------------
(* Bounds of the model *)

MaxLen == 4
MaxGap == 2
MaxBase == 3

(* Program constants *)

TicksPerHour == 10
Threshold == 1
RadarRatio == 10
PlotCount == 100
LightMax == 50
ModerateMax == 250
HeavyMax == 500

-----------------------------------------------------------------------------
(* Floats: comparisons with NaN are false, arithmetic with NaN is NaN *)

RECURSIVE GCD(_, _)
GCD(a, b) == IF b = 0 THEN a ELSE GCD(b, a % b)

Abs(x) == IF x < 0 THEN -x ELSE x

NaN == [nan |-> TRUE, n |-> 0, d |-> 1]

Num(x) == [nan |-> FALSE, n |-> x, d |-> 1]

Frac(n, d) ==
    LET g == GCD(Abs(n), d)
    IN  IF g = 0 THEN Num(0) ELSE [nan |-> FALSE, n |-> n \div g, d |-> d \div g]

IsNaN(a) == a.nan

Lt(a, b) == ~a.nan /\ ~b.nan /\ a.n * b.d < b.n * a.d

Le(a, b) == ~a.nan /\ ~b.nan /\ a.n * b.d <= b.n * a.d

Gt(a, b) == Lt(b, a)

Ge(a, b) == Le(b, a)

Add(a, b) ==
    IF a.nan \/ b.nan THEN NaN ELSE Frac(a.n * b.d + b.n * a.d, a.d * b.d)

Scale(a, k) == IF a.nan THEN NaN ELSE Frac(a.n * k, a.d)

\* a / k for an integer k > 0
DivInt(a, k) == IF a.nan THEN NaN ELSE Frac(a.n, a.d * k)

\* Python's min(a, b) and max(a, b): the first argument unless the second is
\* strictly smaller (greater)
min2(a, b) == IF Lt(b, a) THEN b ELSE a

max2(a, b) == IF Gt(b, a) THEN b ELSE a

RECURSIVE FoldMin(_, _, _)
FoldMin(s, k, m) == IF k > Len(s) THEN m ELSE FoldMin(s, k + 1, min2(m, s[k]))

RECURSIVE FoldMax(_, _, _)
FoldMax(s, k, m) == IF k > Len(s) THEN m ELSE FoldMax(s, k + 1, max2(m, s[k]))

RECURSIVE FoldSum(_, _, _)
FoldSum(s, k, acc) == IF k > Len(s) THEN acc ELSE FoldSum(s, k + 1, Add(acc, s[k]))

\* min, max of a non-empty list, statistics.mean
min(s) == FoldMin(s, 2, s[1])

max(s) == FoldMax(s, 2, s[1])

mean(s) == DivInt(FoldSum(s, 1, Num(0)), Len(s))

-----------------------------------------------------------------------------
(* Event *)

Duration(start_time, end_time) == (end_time - start_time) \div TicksPerHour

EventType(rain_intens_avg) ==
    IF Le(rain_intens_avg, Num(LightMax)) THEN "light"
    ELSE IF Le(rain_intens_avg, Num(ModerateMax)) THEN "moderate"
    ELSE IF Le(rain_intens_avg, Num(HeavyMax)) THEN "heavy"
    ELSE "extreme"

Event(start_time, end_time, stations, reflect_min, reflect_avg, reflect_max, rain_intens_min, rain_intens_avg, rain_intens_max) ==
    [start_time |-> start_time,
     end_time |-> end_time,
     duration |-> Duration(start_time, end_time),
     stations |-> stations,
     num_stations |-> Len(stations),
     reflect_min |-> reflect_min,
     reflect_avg |-> reflect_avg,
     reflect_max |-> reflect_max,
     rain_intens_min |-> rain_intens_min,
     rain_intens_avg |-> rain_intens_avg,
     rain_intens_max |-> rain_intens_max,
     rain_cum_avg |-> Scale(rain_intens_avg, Duration(start_time, end_time)),
     type |-> EventType(rain_intens_avg)]

NoEvent == Event(0, 0, <<>>, NaN, NaN, NaN, NaN, NaN, NaN)

-----------------------------------------------------------------------------
(* select_events_single_station: inputs *)

Station == "S1"

\* datetime[k]: the rain table's index, one timestamp per hour
datetime(k) == k * TicksPerHour

\* vals.iloc[k], 0-based
iloc(s, k) == s[k + 1]

Scenario == <<Num(0), Num(2), Num(3), Num(0), Num(0), Num(0), Num(5), Num(0)>>

Series ==
    UNION {[1..n -> {Num(0), Num(5), NaN}] : n \in 0..MaxLen} \cup {Scenario}

Modes == {"6min", "60min", "1H", "15min"}

\* The radar table of the station: rows every radarStep ticks from radarFirst
\* up to one hour after the last rain timestamp
RadarTimes ==
    LET horizon == datetime(Len(vals))
        count == IF radarFirst > horizon THEN 0
                 ELSE (horizon - radarFirst) \div radarStep + 1
    IN  [k \in 1..count |-> radarFirst + (k - 1) * radarStep]

RadarValue(t) == IF t = radarNaN THEN NaN ELSE Num(1 + (t % 3))

\* list(radar_df.loc[start_time:end_time][station].values)[:-1]
InRange(t, start_time, end_time) == start_time <= t /\ t <= end_time

ReflectVals(start_time, end_time) ==
    LET rows == SelectSeq(RadarTimes, LAMBDA t : InRange(t, start_time, end_time))
    IN  [k \in 1..(Len(rows) - 1) |-> RadarValue(rows[k])]

-----------------------------------------------------------------------------
(* select_events_single_station: the scan *)

AboveThreshold(val) == Ge(val, Num(Threshold))

\* the end taken at the index where the closure is detected
EndIndexAtDetection(jj, G) == jj

EndIndex(jj, G) == jj - G

\* the candidate buffer with its trailing gap kept
RainValsWithGap(cand, cnt) == cand

\* candidate_event[:-consecutive_hours_no_rain]
RainVals(cand, cnt) == SubSeq(cand, 1, Len(cand) - cnt)

\* the sampling check skipped when there is no reflectivity sample
SamplingOkUnlessEmpty(mode, nReflect, nRain) ==
    \/ nReflect = 0
    \/ IF mode = "6min" THEN nReflect = RadarRatio * nRain
       ELSE IF mode = "60min" \/ mode = "1H" THEN nReflect = nRain
       ELSE TRUE

\* the sampling check of the two branches on temporal_res
SamplingOk(mode, nReflect, nRain) ==
    IF mode = "6min" THEN nReflect = RadarRatio * nRain
    ELSE IF mode = "60min" \/ mode = "1H" THEN nReflect = nRain
    ELSE TRUE

\* "Check if no nan values in event, otherwise event is discarded"
Keep(rain_intens_avg) == ~IsNaN(rain_intens_avg)

\* i after a candidate was closed at jj: i = j + 1, break, then i += 1
ResumeIndex(jj) == (jj + 1) + 1

SegIdle ==
    /\ vals = <<>> /\ max_no_rain = 0 /\ temporal_res = "6min"
    /\ radarStep = 1 /\ radarFirst = 0 /\ radarNaN = -1
    /\ i = 0 /\ j = 0 /\ candidate_event = <<>>
    /\ consecutive_hours_no_rain = 0
    /\ Z = <<>> /\ R = <<>> /\ closes = <<>> /\ justClosed = FALSE

MergeIdle == input = <<>> /\ result = <<>>

PairIdle == e1 = NoEvent /\ e2 = NoEvent /\ merged = NoEvent

segInputs == <<vals, max_no_rain, temporal_res, radarStep, radarFirst, radarNaN>>

mergeVars == <<input, result, np64, e1, e2, merged>>

InitSeg ==
    /\ pc = "scan" /\ err = ""
    /\ vals \in Series
    /\ max_no_rain \in 0..MaxGap
    /\ temporal_res \in Modes
    /\ radarStep \in {1, TicksPerHour}
    /\ radarFirst \in {0, 2 * TicksPerHour}
    /\ radarNaN \in {-1, 0}
    /\ i = 0 /\ j = 0 /\ candidate_event = <<>>
    /\ consecutive_hours_no_rain = 0
    /\ events = <<>> /\ Z = <<>> /\ R = <<>>
    /\ closes = <<>> /\ justClosed = FALSE
    /\ np64 = TRUE
    /\ MergeIdle /\ PairIdle

\* line 86, value below the threshold: go to the next timestep
ScanSkip ==
    /\ pc = "scan" /\ i < Len(vals)
    /\ ~AboveThreshold(iloc(vals, i))
    /\ i' = i + 1
    /\ justClosed' = FALSE
    /\ UNCHANGED <<pc, err, segInputs, j, candidate_event,
                   consecutive_hours_no_rain, events, Z, R, closes, mergeVars>>

\* lines 86-92, value at or above the threshold: begin a candidate
ScanStart ==
    /\ pc = "scan" /\ i < Len(vals)
    /\ AboveThreshold(iloc(vals, i))
    /\ candidate_event' = <<>>
    /\ consecutive_hours_no_rain' = 0
    /\ j' = i
    /\ pc' = "inner"
    /\ justClosed' = FALSE
    /\ UNCHANGED <<err, segInputs, i, events, Z, R, closes, mergeVars>>

\* lines 94-101
InnerAbove ==
    /\ pc = "inner" /\ j < Len(vals)
    /\ AboveThreshold(iloc(vals, j))
    /\ candidate_event' = Append(candidate_event, iloc(vals, j))
    /\ consecutive_hours_no_rain' = 0
    /\ j' = j + 1
    /\ UNCHANGED <<pc, err, segInputs, i, events, Z, R, closes, justClosed,
                   mergeVars>>

\* lines 94-106, the gap is still tolerated
InnerBelow ==
    /\ pc = "inner" /\ j < Len(vals)
    /\ ~AboveThreshold(iloc(vals, j))
    /\ ~(consecutive_hours_no_rain + 1 > max_no_rain)
    /\ candidate_event' = Append(candidate_event, iloc(vals, j))
    /\ consecutive_hours_no_rain' = consecutive_hours_no_rain + 1
    /\ j' = j + 1
    /\ UNCHANGED <<pc, err, segInputs, i, events, Z, R, closes, justClosed,
                   mergeVars>>

\* lines 106-164, the gap exceeds max_no_rain: close the candidate
Close ==
    /\ pc = "inner" /\ j < Len(vals)
    /\ ~AboveThreshold(iloc(vals, j))
    /\ consecutive_hours_no_rain + 1 > max_no_rain
    /\ LET cand == Append(candidate_event, iloc(vals, j))
           cnt == consecutive_hours_no_rain + 1
           start_time == datetime(i)
           end_time == datetime(EndIndex(j, max_no_rain))
           reflect_vals == ReflectVals(start_time, end_time)
           empty == Len(reflect_vals) = 0
           reflect_min == IF empty THEN NaN ELSE min(reflect_vals)
           reflect_avg == IF empty THEN NaN ELSE mean(reflect_vals)
           reflect_max == IF empty THEN NaN ELSE max(reflect_vals)
           rain_vals == RainVals(cand, cnt)
           none == Len(rain_vals) = 0
           rain_intens_min == IF none THEN NaN ELSE min(rain_vals)
           rain_intens_avg == IF none THEN NaN ELSE mean(rain_vals)
           rain_intens_max == IF none THEN NaN ELSE max(rain_vals)
           keep == Keep(rain_intens_avg)
           ok == SamplingOk(temporal_res, Len(reflect_vals), Len(rain_vals))
           new_event == Event(start_time, end_time, <<Station>>,
                              reflect_min, reflect_avg, reflect_max,
                              rain_intens_min, rain_intens_avg, rain_intens_max)
       IN  /\ candidate_event' = cand
           /\ consecutive_hours_no_rain' = cnt
           /\ closes' = Append(closes, [i |-> i, j |-> j, kept |-> keep,
                                        empty |-> empty, rain |-> rain_vals,
                                        raised |-> keep /\ ~ok])
           /\ justClosed' = TRUE
           /\ events' = IF keep THEN Append(events, new_event) ELSE events
           /\ R' = IF keep THEN R \o rain_vals ELSE R
           /\ IF keep /\ ~ok
              THEN /\ pc' = "failed" /\ err' = "Exception"
                   /\ UNCHANGED <<Z, i, j>>
              ELSE /\ Z' = IF keep THEN Z \o reflect_vals ELSE Z
                   /\ i' = ResumeIndex(j)
                   /\ pc' = "scan"
                   /\ UNCHANGED <<err, j>>
    /\ UNCHANGED <<segInputs, mergeVars>>

\* line 92 exhausted without a break, then line 164
InnerExhausted ==
    /\ pc = "inner" /\ j >= Len(vals)
    /\ i' = i + 1
    /\ pc' = "scan"
    /\ UNCHANGED <<err, segInputs, j, candidate_event,
                   consecutive_hours_no_rain, events, Z, R, closes, justClosed,
                   mergeVars>>

\* line 84 false, line 166
SegReturn ==
    /\ pc = "scan" /\ i >= Len(vals)
    /\ pc' = "done"
    /\ justClosed' = FALSE
    /\ UNCHANGED <<err, segInputs, i, j, candidate_event,
                   consecutive_hours_no_rain, events, Z, R, closes, mergeVars>>

NextSeg ==
    \/ ScanSkip
    \/ ScanStart
    \/ InnerAbove
    \/ InnerBelow
    \/ Close
    \/ InnerExhausted
    \/ SegReturn

SpecSeg == InitSeg /\ [][NextSeg]_vars

-----------------------------------------------------------------------------
(* merge_two_events *)

\* (avg1 * d1 + avg2 * d2) / (d1 + d2); with d1 + d2 = 0 the division of
\* numpy float64 values gives NaN (Python floats raise, see DivisionByZero)
WeightedAvg(avg1, d1, avg2, d2) ==
    IF d1 + d2 = 0 THEN NaN
    ELSE DivInt(Add(Scale(avg1, d1), Scale(avg2, d2)), d1 + d2)

DivisionByZero(a, b) == a.duration + b.duration = 0

MinTime(a, b) == IF b < a THEN b ELSE a

MaxTime(a, b) == IF b > a THEN b ELSE a

merge_two_events(a, b) ==
    Event(MinTime(a.start_time, b.start_time),
          MaxTime(a.end_time, b.end_time),
          a.stations \o b.stations,
          min2(a.reflect_min, b.reflect_min),
          WeightedAvg(a.reflect_avg, a.duration, b.reflect_avg, b.duration),
          max2(a.reflect_max, b.reflect_max),
          min2(a.rain_intens_min, b.rain_intens_min),
          WeightedAvg(a.rain_intens_avg, a.duration,
                      b.rain_intens_avg, b.duration),
          max2(a.rain_intens_max, b.rain_intens_max))

-----------------------------------------------------------------------------
(* merge_overlapping_events *)

\* events.sort(key=lambda e: e.start_time): stable, so an event goes after
\* every event already placed whose start_time is not later than its own
InsertByStart(sorted, e) ==
    LET pos == Cardinality({k \in 1..Len(sorted) :
                               sorted[k].start_time <= e.start_time})
    IN  SubSeq(sorted, 1, pos) \o <<e>> \o SubSeq(sorted, pos + 1, Len(sorted))

\* evs[lo..hi] inserted one after the other, in list order.  The range is
\* halved, and `sorted` is read first, only to keep the evaluation shallow:
\* the first half is then complete before the second is entered.
RECURSIVE SortRange(_, _, _, _)
SortRange(evs, lo, hi, sorted) ==
    IF Len(sorted) = Len(evs) \/ lo > hi THEN sorted
    ELSE IF lo = hi THEN InsertByStart(sorted, evs[lo])
    ELSE LET mid == (lo + hi) \div 2
         IN  SortRange(evs, mid + 1, hi, SortRange(evs, lo, mid, sorted))

SortByStart(evs) == SortRange(evs, 1, Len(evs), <<>>)

\* plot_single_events reads events[0] .. events[PlotCount - 1]
PlotRaises(evs) == Len(evs) < PlotCount

Overlap(e, last) == e.start_time <= last.end_time

\* one iteration of the loop over events[1:]; once a merge has divided by
\* zero the call is over
MergeStep(acc, e, np) ==
    LET last == acc.res[Len(acc.res)]
    IN  IF acc.raised THEN acc
        ELSE IF Overlap(e, last)
        THEN IF DivisionByZero(last, e) /\ ~np
             THEN [acc EXCEPT !.raised = TRUE]
             ELSE [acc EXCEPT !.res[Len(acc.res)] = merge_two_events(last, e)]
        ELSE [acc EXCEPT !.res = Append(acc.res, e)]

\* the iterations for evs[lo..hi], in list order.  The range is halved, and
\* `acc` is read first, only to keep the evaluation shallow.
RECURSIVE MergeRange(_, _, _, _, _)
MergeRange(evs, lo, hi, acc, np) ==
    IF acc.raised \/ lo > hi THEN acc
    ELSE IF lo = hi THEN MergeStep(acc, evs[lo], np)
    ELSE LET mid == (lo + hi) \div 2
         IN  MergeRange(evs, mid + 1, hi, MergeRange(evs, lo, mid, acc, np), np)

\* result = [events[0]], then the loop
MergeLoop(evs, np) ==
    MergeRange(evs, 2, Len(evs), [res |-> <<evs[1]>>, raised |-> FALSE], np)

(* inputs: single-station Events on a coarse grid of ticks, and PlotCount     *)
(* later one-hour Events that overlap nothing, latest first                   *)

GridTicks == {0, 5, 10, 20}

StatChoices == {2, 3}

BaseEvent(s, t, c) ==
    Event(s, t, <<Station>>, Num(5 * c), Num(10 * c), Num(20 * c),
          Num(c), Num(2 * c), Num(4 * c))

BaseEvents ==
    UNION {{BaseEvent(s, t, c) : t \in {u \in GridTicks : u > s},
                                 c \in StatChoices} : s \in GridTicks}

LaterEvents ==
    [k \in 1..PlotCount |->
        BaseEvent((2 * (PlotCount - k) + 10) * TicksPerHour,
                  (2 * (PlotCount - k) + 11) * TicksPerHour, 2)]

MergeInputs ==
    LET base == UNION {[1..n -> BaseEvents] : n \in 1..MaxBase}
    IN  base \cup {b \o LaterEvents : b \in base}

InitMerge ==
    /\ pc = "sort" /\ err = ""
    /\ input \in MergeInputs
    /\ events = input
    /\ result = <<>>
    /\ np64 \in BOOLEAN
    /\ SegIdle /\ PairIdle

segVars == <<segInputs, i, j, candidate_event, consecutive_hours_no_rain,
             Z, R, closes, justClosed>>

\* line 178
SortEvents ==
    /\ pc = "sort"
    /\ events' = SortByStart(events)
    /\ pc' = "plot"
    /\ UNCHANGED <<err, segVars, input, result, np64, e1, e2, merged>>

\* line 181
PlotSingleEvents ==
    /\ pc = "plot"
    /\ IF PlotRaises(events)
       THEN pc' = "failed" /\ err' = "IndexError"
       ELSE pc' = "merge" /\ err' = err
    /\ UNCHANGED <<segVars, events, input, result, np64, e1, e2, merged>>

\* lines 184-196
MergeEvents ==
    /\ pc = "merge"
    /\ LET out == MergeLoop(events, np64)
       IN  /\ result' = out.res
           /\ IF out.raised
              THEN pc' = "failed" /\ err' = "ZeroDivisionError"
              ELSE pc' = "done" /\ err' = err
    /\ UNCHANGED <<segVars, events, input, np64, e1, e2, merged>>

NextMerge ==
    \/ SortEvents
    \/ PlotSingleEvents
    \/ MergeEvents

SpecMerge == InitMerge /\ [][NextMerge]_vars

(* merge_two_events called on its own *)

InitPair ==
    /\ pc = "pair" /\ err = ""
    /\ e1 \in BaseEvents /\ e2 \in BaseEvents
    /\ merged = NoEvent
    /\ np64 \in BOOLEAN
    /\ events = <<>>
    /\ SegIdle /\ MergeIdle

\* lines 208-228
MergeTwo ==
    /\ pc = "pair"
    /\ IF DivisionByZero(e1, e2) /\ ~np64
       THEN pc' = "failed" /\ err' = "ZeroDivisionError" /\ merged' = merged
       ELSE pc' = "done" /\ err' = err /\ merged' = merge_two_events(e1, e2)
    /\ UNCHANGED <<segVars, events, input, result, np64, e1, e2>>

NextPair == MergeTwo

SpecPair == InitPair /\ [][NextPair]_vars

-----------------------------------------------------------------------------
(* select_events_single_station: properties *)

Last(s) == s[Len(s)]

\* the number of Events appended up to and including the k-th close
KeptIndex(k) == Cardinality({m \in 1..k : closes[m].kept})

RECURSIVE ConcatRain(_, _)
ConcatRain(cs, k) ==
    IF k > Len(cs) THEN <<>>
    ELSE (IF cs[k].kept THEN SubSeq(vals, cs[k].i + 1, cs[k].j - max_no_rain)
          ELSE <<>>) \o ConcatRain(cs, k + 1)

RECURSIVE ConcatReflect(_, _)
ConcatReflect(cs, k) ==
    IF k > Len(cs) THEN <<>>
    ELSE (IF cs[k].kept
          THEN ReflectVals(datetime(cs[k].i), datetime(cs[k].j - max_no_rain))
          ELSE <<>>) \o ConcatReflect(cs, k + 1)

\* a run of more than max_no_rain below-threshold values ends at index jj,
\* all of it after index k
RunEndsAt(k, jj) ==
    /\ jj - max_no_rain > k
    /\ \A m \in (jj - max_no_rain)..jj : ~AboveThreshold(iloc(vals, m))

NoClosureFrom(k) == ~\E jj \in k..(Len(vals) - 1) : RunEndsAt(k, jj)

OpenTail(k) ==
    /\ k \in 0..(Len(vals) - 1)
    /\ AboveThreshold(iloc(vals, k))
    /\ NoClosureFrom(k)

NoNaNFields(e) ==
    /\ ~IsNaN(e.reflect_min) /\ ~IsNaN(e.reflect_avg) /\ ~IsNaN(e.reflect_max)
    /\ ~IsNaN(e.rain_intens_min) /\ ~IsNaN(e.rain_intens_avg)
    /\ ~IsNaN(e.rain_intens_max)

Ordered(e) ==
    /\ Le(e.reflect_min, e.reflect_avg) /\ Le(e.reflect_avg, e.reflect_max)
    /\ Le(e.rain_intens_min, e.rain_intens_avg)
    /\ Le(e.rain_intens_avg, e.rain_intens_max)

CheckedMode == temporal_res \in {"6min", "60min", "1H"}

\* C3: every Event the segmenter returns (and every Event the merger returns)
\* has reflect_min <= reflect_avg <= reflect_max and
\* rain_intens_min <= rain_intens_avg <= rain_intens_max.
C3_StatsOrdered ==
    pc = "done" => \A k \in 1..Len(events) : Ordered(events[k])

\* C6: no Event the segmenter returns has a NaN among its six reflectivity and
\* rain-intensity statistics, whatever the series and the radar table hold.
C6_NoNaNInReturnedEvents ==
    pc = "done" => \A k \in 1..Len(events) : NoNaNFields(events[k])

\* C7: when the series ends before the closing run of a candidate started at
\* k occurs, no Event starts at k and no sample at or after k is recorded; the
\* recorded rain and reflectivity samples are those of the closed candidates
\* only; and the
\* series [0, 0.2, 0.3, 0, 0, 0, 0.5, 0] with gap tolerance 2 gives exactly
\* one Event, starting at index 1, with the rain samples of indices 1-2.
C7_TrailingCandidateDropped ==
    pc = "done" =>
        /\ \A k \in 0..(Len(vals) - 1) : OpenTail(k) =>
              /\ \A m \in 1..Len(events) : events[m].start_time # datetime(k)
              /\ \A m \in 1..Len(closes) :
                    closes[m].kept => closes[m].j - max_no_rain <= k
        /\ R = ConcatRain(closes, 1)
        /\ Z = ConcatReflect(closes, 1)
        /\ (vals = Scenario /\ max_no_rain = 2) =>
              /\ Len(events) = 1
              /\ events[1].start_time = datetime(1)
              /\ R = <<Num(2), Num(3)>>

C7_Witness ==
    /\ pc = "done" /\ vals = Scenario /\ max_no_rain = 2
    /\ temporal_res = "6min"
    /\ OpenTail(6)
    /\ Len(events) = 1 /\ Len(Z) = 2 * RadarRatio

\* C8: right after a candidate was closed at index j, the next index examined
\* as a possible event start is j + 1.
C8_ResumesAtNextIndex ==
    (justClosed /\ pc = "scan") => i = Last(closes).j + 1

\* C9: every Event emitted for a candidate started at i and closed at j has
\* start_time = datetime[i], end_time = datetime[j - G] with i < j - G, hence
\* end_time > start_time, and its rain samples are vals[i .. j - G - 1], never
\* empty.
C9_EventWindow ==
    /\ Len(events) = KeptIndex(Len(closes))
    /\ \A k \in 1..Len(closes) : closes[k].kept =>
          LET c == closes[k]
              e == events[KeptIndex(k)]
          IN  /\ e.start_time = datetime(c.i)
              /\ e.end_time = datetime(c.j - max_no_rain)
              /\ c.i < c.j - max_no_rain
              /\ e.end_time > e.start_time
              /\ c.rain = SubSeq(vals, c.i + 1, c.j - max_no_rain)
              /\ c.rain = [m \in 1..(c.j - max_no_rain - c.i) |->
                              iloc(vals, c.i + m - 1)]
              /\ Len(c.rain) > 0

C9_Witness ==
    /\ pc = "done" /\ max_no_rain = 1 /\ Len(events) = 1
    /\ closes[1].kept /\ closes[1].i = 0 /\ closes[1].j = 3
    /\ closes[1].rain = <<Num(5), Num(5)>>
    /\ events[1].duration = 2

-----------------------------------------------------------------------------
(* merge_overlapping_events, merge_two_events: properties *)

Finished == pc \in {"done", "failed"}

Spans(res) == [k \in 1..Len(res) |-> <<res[k].start_time, res[k].end_time>>]

SortedByStart(res) ==
    \A k \in 1..(Len(res) - 1) : res[k].start_time <= res[k + 1].start_time

Apart(res) ==
    \A k \in 1..(Len(res) - 1) : res[k].end_time < res[k + 1].start_time

Within(e, r) == r.start_time <= e.start_time /\ e.end_time <= r.end_time

CoveredOnce(inp, res) ==
    \A m \in 1..Len(inp) :
        Cardinality({k \in 1..Len(res) : Within(inp[m], res[k])}) = 1

Swap(s, a, b) == [s EXCEPT ![a] = s[b], ![b] = s[a]]

Reverse(s) == [k \in 1..Len(s) |-> s[Len(s) + 1 - k]]

\* the input with two of its first positions exchanged, or reversed
Reorderings(inp) ==
    LET n == IF Len(inp) < MaxBase + 1 THEN Len(inp) ELSE MaxBase + 1
    IN  {Swap(inp, a, b) : a \in 1..n, b \in 1..n} \cup {Reverse(inp)}

MergedSpans(inp) == Spans(MergeLoop(SortByStart(inp), TRUE).res)

Meet(a, b) == a.start_time <= b.end_time /\ b.start_time <= a.end_time

\* the first three events of the input: A meets B, B meets C
Chain(inp) ==
    /\ Len(inp) >= 3
    /\ Meet(inp[1], inp[2]) /\ Meet(inp[2], inp[3])

ChainStart(inp) ==
    MinTime(inp[1].start_time, MinTime(inp[2].start_time, inp[3].start_time))

ChainEnd(inp) ==
    MaxTime(inp[1].end_time, MaxTime(inp[2].end_time, inp[3].end_time))

SameValue(a, b) == ~a.nan /\ ~b.nan /\ a.n * b.d = b.n * a.d

HalfSum(a, b) == DivInt(Add(a, b), 2)

\* C1: for every input list of at least one Event the merger returns a list
\* sorted by start_time in which consecutive events neither overlap nor touch
\* and every input interval lies within exactly one result event.
C1_ReturnsSortedDisjointCover ==
    Finished =>
        /\ pc = "done"
        /\ SortedByStart(result) /\ Apart(result)
        /\ CoveredOnce(input, result)

\* the same once the call has returned
MergeReturnedSortedDisjointCover ==
    pc = "done" =>
        /\ SortedByStart(result) /\ Apart(result)
        /\ CoveredOnce(input, result)

\* C2: the merger completes and returns its merged list whatever the length of
\* the input list; plotting the first PlotCount events never prevents it.
C2_PlotNeverPreventsResult ==
    /\ err # "IndexError"
    /\ (pc = "merge" \/ Finished) => Len(events) = Len(input)
    /\ Finished => (pc = "done" /\ Len(result) >= 1)

\* C4: the time spans of the result do not depend on the order of the input
\* list, and three events A, B, C with A meeting B and B meeting C give
\* exactly one event from the least start to the greatest end.
C4_SpansOrderIndependent ==
    Finished =>
        /\ pc = "done"
        /\ \A p \in Reorderings(input) : MergedSpans(p) = Spans(result)
        /\ (Len(input) = 3 /\ Chain(input)) =>
              Spans(result) = <<<<ChainStart(input), ChainEnd(input)>>>>

\* the same once the call has returned, the three events being followed by
\* the PlotCount later ones
MergeReturnedOrderIndependent ==
    pc = "done" =>
        /\ \A p \in Reorderings(input) : MergedSpans(p) = Spans(result)
        /\ (Len(input) = 3 + PlotCount /\ Chain(input)) =>
              /\ Len(result) = 1 + PlotCount
              /\ Spans(result)[1] = <<ChainStart(input), ChainEnd(input)>>

\* C5: for two Events of equal duration merge_two_events returns an Event whose
\* reflect_avg and rain_intens_avg are the arithmetic means of the two; with
\* average 20 over duration 2 and average 30 over duration 1 it returns 70/3.
C5_EqualDurationGivesMean ==
    /\ (Finished /\ e1.duration = e2.duration) =>
          /\ pc = "done"
          /\ SameValue(merged.reflect_avg,
                       HalfSum(e1.reflect_avg, e2.reflect_avg))
          /\ SameValue(merged.rain_intens_avg,
                       HalfSum(e1.rain_intens_avg, e2.rain_intens_avg))
    /\ (Finished /\ e1.duration = 2 /\ e2.duration = 1
           /\ e1.reflect_avg = Num(20) /\ e2.reflect_avg = Num(30)) =>
          SameValue(merged.reflect_avg, Frac(70, 3))

\* the same for durations that are not both zero
MergeTwoWeightedMean ==
    (Finished /\ ~DivisionByZero(e1, e2)) =>
        /\ pc = "done"
        /\ e1.duration = e2.duration =>
              /\ SameValue(merged.reflect_avg,
                           HalfSum(e1.reflect_avg, e2.reflect_avg))
              /\ SameValue(merged.rain_intens_avg,
                           HalfSum(e1.rain_intens_avg, e2.rain_intens_avg))
        /\ (e1.duration = 2 /\ e2.duration = 1
               /\ e1.reflect_avg = Num(20) /\ e2.reflect_avg = Num(30)) =>
              SameValue(merged.reflect_avg, Frac(70, 3))

MergeTwoExample ==
    /\ pc = "done" /\ e1.duration = 2 /\ e2.duration = 1
    /\ e1.reflect_avg = Num(20) /\ e2.reflect_avg = Num(30)
    /\ merged.reflect_avg = Frac(70, 3)

====
